---------------------------- MODULE Spec2Model ----------------------------
(***************************************************************************)
(* generateTypings.py: the generator of the composeMessageHandlers         *)
(* overloads.  main() reads --overloads and prints, for every arity        *)
(* i = 1..overloads, one TypeScript overload signature, line by line.      *)
(*                                                                         *)
(* A printed line is modelled as the sequence of its lexical tokens        *)
(* (indentation and the blanks between tokens are dropped); an f-string    *)
(* name such as NewState{j} is the string "NewState" \o ToString(j).       *)
(* The output stream `out` is the sequence of the lines printed so far,    *)
(* one print statement being one step of the program.                      *)
(***************************************************************************)
EXTENDS Integers, Sequences, FiniteSets, TLC

VARIABLES
    pc,       \* the line of main() that executes next, "done" after exit
    argv,     \* the command line: <<>> or <<"--overloads", text>>
    locals,   \* main()'s bound local names (a name not bound is not in DOMAIN)
    iter_i,   \* values the iterator of the loop of line 9 has yet to yield
    iter_j,   \* values the iterator of the running inner loop has yet to yield
    out,      \* stdout: the lines printed so far
    stderr,   \* stderr: the messages written so far
    status    \* exit status of the process, -1 while it runs

vars == <<pc, argv, locals, iter_i, iter_j, out, stderr, status>>

(***************************************************************************)
(* Bounds of the model.                                                    *)
(***************************************************************************)
MaxOverloads == 4

(***************************************************************************)
(* Python helpers.                                                         *)
(***************************************************************************)
DefaultOverloads == 9

Digits == <<"0", "1", "2", "3", "4", "5", "6", "7", "8", "9">>

DigitValue(c) == (CHOOSE k \in 1..Len(Digits) : Digits[k] = c) - 1

IsDigit(c) == \E k \in 1..Len(Digits) : Digits[k] = c

RECURSIVE DigitsValue(_)
DigitsValue(s) ==
    IF s = <<>> THEN 0
    ELSE 10 * DigitsValue(SubSeq(s, 1, Len(s) - 1)) + DigitValue(s[Len(s)])

\* int(text) accepts an optional sign followed by at least one digit
IsIntText(s) ==
    LET body == IF s # <<>> /\ s[1] \in {"-", "+"} THEN Tail(s) ELSE s
    IN  body # <<>> /\ \A k \in 1..Len(body) : IsDigit(body[k])

PyInt(s) ==
    IF s[1] = "-" THEN 0 - DigitsValue(Tail(s))
    ELSE IF s[1] = "+" THEN DigitsValue(Tail(s))
    ELSE DigitsValue(s)

\* range(a, b): the values a, a+1, ..., b-1 in order (none when b <= a)
Range(a, b) == [k \in 1..(IF b > a THEN b - a ELSE 0) |-> a + k - 1]

\* sep.join(parts), as tokens
RECURSIVE Join(_, _)
Join(parts, sep) ==
    IF Len(parts) = 0 THEN <<>>
    ELSE IF Len(parts) = 1 THEN <<parts[1]>>
    ELSE Join(SubSeq(parts, 1, Len(parts) - 1), sep) \o <<sep, parts[Len(parts)]>>

NewState(k) == "NewState" \o ToString(k)

Errors(k) == "Errors" \o ToString(k)

Bind(f, name, value) ==
    [n \in DOMAIN f \cup {name} |-> IF n = name THEN value ELSE f[n]]

Bound(name) == name \in DOMAIN locals

NoLocals == [n \in {} |-> 0]

(***************************************************************************)
(* The command lines tried.                                                *)
(***************************************************************************)
RECURSIVE NatText(_)
NatText(n) ==
    IF n < 10 THEN <<Digits[n + 1]>>
    ELSE NatText(n \div 10) \o <<Digits[(n % 10) + 1]>>

IntText(n) == IF n < 0 THEN <<"-">> \o NatText(0 - n) ELSE NatText(n)

ArgTexts ==
    {IntText(n) : n \in (0 - 2)..MaxOverloads} \cup {<<"x">>, <<>>, <<"+", "2">>, <<"0", "1">>}

CommandLines == {<<>>} \cup {<<"--overloads", t>> : t \in ArgTexts}

(***************************************************************************)
(* The lines main() prints.                                                *)
(***************************************************************************)
Line10 == <<"export", "function", "composeMessageHandlers", "<">>

Line11 == <<"ExistingState", ",">>

\* slip: the pair declared in the other order
Line13_swapped(j) == <<Errors(j), ",", NewState(j), ",">>

Line13(j) == <<NewState(j), ",", Errors(j), ",">>

Line14 == <<">", "(">>

Line15 == <<"handlers", ":", "[">>

Line16 == <<"MessageHandler", "<", "ExistingState", ",", "NewState1", ",", "Errors1", ">", ",">>

Line20(joined_states, j, joined_errors) ==
    <<"MessageHandler", "<", "ExistingState", "&">> \o joined_states
        \o <<",", NewState(j + 1), ",">> \o joined_errors \o <<">", ",">>

Line21 == <<"]", ",">>

Line22 == <<"composeCleanupErrors", ":", "(">>

Line24(joined_errors) ==
    <<"errors", ":", "ReadonlyArray", "<", "Readonly", "<">> \o joined_errors \o <<">", ">">>

Line25(joined_errors) == <<")", "=>", "Awaitable", "<">> \o joined_errors \o <<">">>

Line26 == <<")", ":", "MessageHandler", "<">>

Line27 == <<"ExistingState", ",">>

Line29(joined_state) == joined_state \o <<",">>

Line30(joined_errors) == joined_errors

Line31 == <<">">>

(***************************************************************************)
(* The ranges and joins main() evaluates.                                  *)
(***************************************************************************)
\* Each definition marked "slip" below is the definition that follows it with
\* one plausible mistake; a property of the output that rests on the code
\* fails when the slip takes the definition's place.

\* slip: the upper end of the arities excluded
ArityRange_exclusive(overloads) == Range(1, overloads)

ArityRange(overloads) == Range(1, overloads + 1)

\* slip: one pair of type variables too few
GenericRange_short(i) == Range(1, i + 1)

GenericRange(i) == Range(1, i + 2)

ClauseRange(i) == Range(1, i + 1)

\* slip: the state replaced at each step instead of conjoined
ClauseStates_latest(j) == <<NewState(j)>>

ClauseStates(j) == Join([k \in DOMAIN Range(1, j + 1) |-> NewState(Range(1, j + 1)[k])], "&")

\* slip: the union not offset by the initial handler
ClauseErrors_positional(j) ==
    Join([k \in DOMAIN Range(1, j + 1) |-> Errors(Range(1, j + 1)[k])], "|")

ClauseErrors(j) == Join([k \in DOMAIN Range(1, j + 2) |-> Errors(Range(1, j + 2)[k])], "|")

\* slip: the last error variable left out of the final union
CleanupErrors_short(i) ==
    Join([k \in DOMAIN Range(1, i + 1) |-> Errors(Range(1, i + 1)[k])], "|")

CleanupErrors(i) == Join([k \in DOMAIN Range(1, i + 2) |-> Errors(Range(1, i + 2)[k])], "|")

\* slip: the final state is the trailing state variable alone
FinalState_last(i) == <<NewState(i + 1)>>

FinalState(i) == Join([k \in DOMAIN Range(1, i + 2) |-> NewState(Range(1, i + 2)[k])], "&")

(***************************************************************************)
(* Initial state: the process has started, main() has not run.             *)
(***************************************************************************)
Init ==
    /\ pc = "L5"
    /\ argv \in CommandLines
    /\ locals = NoLocals
    /\ iter_i = <<>>
    /\ iter_j = <<>>
    /\ out = <<>>
    /\ stderr = <<>>
    /\ status = -1

(***************************************************************************)
(* Steps of main().                                                        *)
(***************************************************************************)
\* slip: the stream rewritten by each print instead of appended to
print_rewriting(at, line, next) ==
    /\ pc = at
    /\ out' = <<line>>
    /\ pc' = next
    /\ UNCHANGED <<argv, locals, iter_i, iter_j, stderr, status>>

\* print(line) at `at`, then on to `next`
print(at, line, next) ==
    /\ pc = at
    /\ out' = Append(out, line)
    /\ pc' = next
    /\ UNCHANGED <<argv, locals, iter_i, iter_j, stderr, status>>

\* name = value at `at`, then on to `next`
Assign(at, name, value, next) ==
    /\ pc = at
    /\ locals' = Bind(locals, name, value)
    /\ pc' = next
    /\ UNCHANGED <<argv, iter_i, iter_j, out, stderr, status>>

\* lines 5-7: an absent option gives the default, type=int converts the text,
\* a text int() refuses makes argparse report it and exit with status 2
ParseArgs ==
    /\ pc = "L5"
    /\ IF argv = <<>>
       THEN /\ locals' = Bind(locals, "overloads", DefaultOverloads)
            /\ pc' = "L9"
            /\ UNCHANGED <<stderr, status>>
       ELSE IF IsIntText(argv[2])
       THEN /\ locals' = Bind(locals, "overloads", PyInt(argv[2]))
            /\ pc' = "L9"
            /\ UNCHANGED <<stderr, status>>
       ELSE /\ stderr' = Append(stderr, <<"argument --overloads: invalid int value:", argv[2]>>)
            /\ status' = 2
            /\ pc' = "done"
            /\ UNCHANGED locals
    /\ UNCHANGED <<argv, iter_i, iter_j, out>>

\* line 9, entering the loop: the range is evaluated once
ForI_Enter ==
    /\ pc = "L9"
    /\ iter_i' = ArityRange(locals.overloads)
    /\ pc' = "L9_next"
    /\ UNCHANGED <<argv, locals, iter_j, out, stderr, status>>

\* line 9, each iteration: bind i or leave the loop, after which main() returns
ForI_Next ==
    /\ pc = "L9_next"
    /\ IF iter_i # <<>>
       THEN /\ locals' = Bind(locals, "i", Head(iter_i))
            /\ iter_i' = Tail(iter_i)
            /\ pc' = "L10"
            /\ UNCHANGED status
       ELSE /\ pc' = "done"
            /\ status' = 0
            /\ UNCHANGED <<locals, iter_i>>
    /\ UNCHANGED <<argv, iter_j, out, stderr>>

Print10 == print("L10", Line10, "L11")

Print11 == print("L11", Line11, "L12")

ForJ12_Enter ==
    /\ pc = "L12"
    /\ iter_j' = GenericRange(locals.i)
    /\ pc' = "L12_next"
    /\ UNCHANGED <<argv, locals, iter_i, out, stderr, status>>

ForJ12_Next ==
    /\ pc = "L12_next"
    /\ IF iter_j # <<>>
       THEN /\ locals' = Bind(locals, "j", Head(iter_j))
            /\ iter_j' = Tail(iter_j)
            /\ pc' = "L13"
       ELSE /\ pc' = "L14"
            /\ UNCHANGED <<locals, iter_j>>
    /\ UNCHANGED <<argv, iter_i, out, stderr, status>>

Print13 == print("L13", Line13(locals.j), "L12_next")

Print14 == print("L14", Line14, "L15")

Print15 == print("L15", Line15, "L16")

Print16 == print("L16", Line16, "L17")

ForJ17_Enter ==
    /\ pc = "L17"
    /\ iter_j' = ClauseRange(locals.i)
    /\ pc' = "L17_next"
    /\ UNCHANGED <<argv, locals, iter_i, out, stderr, status>>

ForJ17_Next ==
    /\ pc = "L17_next"
    /\ IF iter_j # <<>>
       THEN /\ locals' = Bind(locals, "j", Head(iter_j))
            /\ iter_j' = Tail(iter_j)
            /\ pc' = "L18"
       ELSE /\ pc' = "L21"
            /\ UNCHANGED <<locals, iter_j>>
    /\ UNCHANGED <<argv, iter_i, out, stderr, status>>

Assign18 == Assign("L18", "joined_states", ClauseStates(locals.j), "L19")

Assign19 == Assign("L19", "joined_errors", ClauseErrors(locals.j), "L20")

Print20 == print("L20", Line20(locals.joined_states, locals.j, locals.joined_errors), "L17_next")

Print21 == print("L21", Line21, "L22")

Print22 == print("L22", Line22, "L23")

Assign23 == Assign("L23", "joined_errors", CleanupErrors(locals.i), "L24")

Print24 == print("L24", Line24(locals.joined_errors), "L25")

Print25 == print("L25", Line25(locals.joined_errors), "L26")

Print26 == print("L26", Line26, "L27")

Print27 == print("L27", Line27, "L28")

Assign28 == Assign("L28", "joined_state", FinalState(locals.i), "L29")

Print29 == print("L29", Line29(locals.joined_state), "L30")

Print30 == print("L30", Line30(locals.joined_errors), "L31")

Print31 == print("L31", Line31, "L9_next")

Next ==
    \/ ParseArgs
    \/ ForI_Enter
    \/ ForI_Next
    \/ Print10
    \/ Print11
    \/ ForJ12_Enter
    \/ ForJ12_Next
    \/ Print13
    \/ Print14
    \/ Print15
    \/ Print16
    \/ ForJ17_Enter
    \/ ForJ17_Next
    \/ Assign18
    \/ Assign19
    \/ Print20
    \/ Print21
    \/ Print22
    \/ Assign23
    \/ Print24
    \/ Print25
    \/ Print26
    \/ Print27
    \/ Assign28
    \/ Print29
    \/ Print30
    \/ Print31

Spec == Init /\ [][Next]_vars

\* the interpreter runs main() to its end: a step that can be taken is taken
FairSpec == Spec /\ WF_vars(Next)

(***************************************************************************)
(* Reading the output back: the signatures of the stream and their parts.  *)
(***************************************************************************)
Opening == <<"export", "function", "composeMessageHandlers", "<">>

Punctuation == {",", "<", ">", "(", ")", "[", "]", ":", "&", "|", "=>"}

IsName(t) == t \notin Punctuation

IsPrefix(s, t) == Len(s) <= Len(t) /\ SubSeq(t, 1, Len(s)) = s

StartsWith(line, toks) == IsPrefix(toks, line)

EndsWith(line, toks) ==
    Len(toks) <= Len(line) /\ SubSeq(line, Len(line) - Len(toks) + 1, Len(line)) = toks

\* the first index >= from at which s holds x, 0 when there is none
FirstIndex(s, x, from) ==
    LET hits == {k \in from..Len(s) : s[k] = x}
    IN  IF hits = {} THEN 0 ELSE CHOOSE k \in hits : \A m \in hits : k <= m

\* where the blocks of the stream start: at each opening line (and at line 1)
BlockStarts(o) ==
    {k \in 1..Len(o) : o[k] = Opening} \cup (IF o = <<>> THEN {} ELSE {1})

NumBlocks(o) == Cardinality(BlockStarts(o))

BlockStart(o, n) ==
    CHOOSE k \in BlockStarts(o) : Cardinality({m \in BlockStarts(o) : m < k}) = n - 1

\* the n-th block: from its opening line to the line before the next opening
Block(o, n) ==
    SubSeq(o, BlockStart(o, n),
           IF n < NumBlocks(o) THEN BlockStart(o, n + 1) - 1 ELSE Len(o))

\* x1 op x2 op ... op xn, n >= 1, every x a name
IsOperands(expr, op) ==
    /\ Len(expr) % 2 = 1
    /\ \A k \in 1..Len(expr) : IF k % 2 = 1 THEN IsName(expr[k]) ELSE expr[k] = op

Operands(expr, op) == [k \in 1..((Len(expr) + 1) \div 2) |-> expr[2 * k - 1]]

\* the pieces of toks between the separators
RECURSIVE SplitOn(_, _)
SplitOn(toks, sep) ==
    LET k == FirstIndex(toks, sep, 1)
    IN  IF k = 0 THEN <<toks>>
        ELSE <<SubSeq(toks, 1, k - 1)>> \o SplitOn(SubSeq(toks, k + 1, Len(toks)), sep)

RECURSIVE Flatten(_)
Flatten(ls) == IF ls = <<>> THEN <<>> ELSE Head(ls) \o Flatten(Tail(ls))

GenericsEnd(s) == FirstIndex(s, <<">", "(">>, 2)

HandlersEnd(s) == FirstIndex(s, <<"]", ",">>, GenericsEnd(s) + 1)

ClauseArgs(line) == SplitOn(SubSeq(line, 3, Len(line) - 2), ",")

IsClause(line) ==
    /\ StartsWith(line, <<"MessageHandler", "<">>)
    /\ EndsWith(line, <<">", ",">>)
    /\ Len(line) >= 9
    /\ Len(ClauseArgs(line)) = 3
    /\ IsOperands(ClauseArgs(line)[1], "&")
    /\ IsOperands(ClauseArgs(line)[2], "&")
    /\ Len(ClauseArgs(line)[2]) = 1
    /\ IsOperands(ClauseArgs(line)[3], "|")

\* a whole signature: every section present, in order, nothing before or after
WellFormed(s) ==
    LET g == GenericsEnd(s)
        h == HandlersEnd(s)
    IN  /\ Len(s) >= 1 /\ s[1] = Opening
        /\ g > 0 /\ h > 0
        /\ Len(s) = h + 8
        /\ \A k \in 2..(g - 1) :
              /\ s[k] # <<>> /\ Len(s[k]) % 2 = 0
              /\ \A m \in 1..Len(s[k]) :
                    IF m % 2 = 1 THEN IsName(s[k][m]) ELSE s[k][m] = ","
        /\ s[g + 1] = <<"handlers", ":", "[">>
        /\ \A k \in (g + 2)..(h - 1) : IsClause(s[k])
        /\ s[h + 1] = <<"composeCleanupErrors", ":", "(">>
        /\ StartsWith(s[h + 2], <<"errors", ":", "ReadonlyArray", "<", "Readonly", "<">>)
        /\ EndsWith(s[h + 2], <<">", ">">>)
        /\ Len(s[h + 2]) >= 9
        /\ IsOperands(SubSeq(s[h + 2], 7, Len(s[h + 2]) - 2), "|")
        /\ StartsWith(s[h + 3], <<")", "=>", "Awaitable", "<">>)
        /\ EndsWith(s[h + 3], <<">">>)
        /\ Len(s[h + 3]) >= 6
        /\ IsOperands(SubSeq(s[h + 3], 5, Len(s[h + 3]) - 1), "|")
        /\ s[h + 4] = <<")", ":", "MessageHandler", "<">>
        /\ Len(s[h + 5]) = 2 /\ IsName(s[h + 5][1]) /\ s[h + 5][2] = ","
        /\ EndsWith(s[h + 6], <<",">>)
        /\ IsOperands(SubSeq(s[h + 6], 1, Len(s[h + 6]) - 1), "&")
        /\ IsOperands(s[h + 7], "|")
        /\ s[h + 8] = <<">">>

\* the parts of a whole signature s
GenericParams(s) ==
    SelectSeq(Flatten(SubSeq(s, 2, GenericsEnd(s) - 1)), LAMBDA t : t # ",")

HandlerClauses(s) ==
    [k \in 1..(HandlersEnd(s) - GenericsEnd(s) - 2) |->
        LET a == ClauseArgs(s[GenericsEnd(s) + 1 + k])
        IN  [input  |-> Operands(a[1], "&"),
             output |-> a[2][1],
             errors |-> Operands(a[3], "|")]]

CleanupArgErrors(s) ==
    LET l == s[HandlersEnd(s) + 2] IN Operands(SubSeq(l, 7, Len(l) - 2), "|")

CleanupResultErrors(s) ==
    LET l == s[HandlersEnd(s) + 3] IN Operands(SubSeq(l, 5, Len(l) - 1), "|")

ReturnInitial(s) == s[HandlersEnd(s) + 5][1]

ReturnFinal(s) ==
    LET l == s[HandlersEnd(s) + 6] IN Operands(SubSeq(l, 1, Len(l) - 1), "&")

ReturnErrors(s) == Operands(s[HandlersEnd(s) + 7], "|")

\* the extra parameters of s: the names that open a line between the handlers
\* list and the return type
ExtraParams(s) ==
    LET h == HandlersEnd(s)
        r == FirstIndex(s, <<")", ":", "MessageHandler", "<">>, h + 1)
    IN  {s[k][1] : k \in {m \in (h + 1)..(r - 1) : Len(s[m]) >= 2 /\ s[m][2] = ":"}}
           \ {"errors"}

SeqToSet(q) == {q[k] : k \in 1..Len(q)}

NoRepeat(q) == \A a, b \in 1..Len(q) : q[a] = q[b] => a = b

\* the type variables as the specification names them
StateVars(a, b) == [k \in 1..(b - a + 1) |-> "NewState" \o ToString(a + k - 1)]

ErrorVars(a, b) == [k \in 1..(b - a + 1) |-> "Errors" \o ToString(a + k - 1)]

\* main() has just printed the last line of the signature of arity locals.i
JustEmitted == pc = "L9_next" /\ Bound("i")

LastSig == Block(out, NumBlocks(out))

\* the n-th block of the stream is finished: a later one has begun, or the
\* loop body has run to its end
Finished(n) == n < NumBlocks(out) \/ (n = NumBlocks(out) /\ pc \in {"L9_next", "done"})
(***************************************************************************)
(* C1.  An --overloads value that is zero or negative is rejected: the     *)
(* run ends in an error that names the value, and no line of output has    *)
(* been printed.                                                           *)
(***************************************************************************)
C1_InvalidValueRejected ==
    (pc = "done" /\ argv # <<>> /\ IsIntText(argv[2]) /\ PyInt(argv[2]) <= 0)
        => /\ status # 0
           /\ \E k \in 1..Len(stderr) : stderr[k][Len(stderr[k])] = argv[2]
           /\ out = <<>>

(***************************************************************************)
(* C2.  For overloads = n >= 1 the run prints exactly n signatures, the    *)
(* k-th being the signature of arity k (k+1 handler clauses); the          *)
(* signature of arity i is finished before a line of the next one is       *)
(* printed (while the body runs for i, the stream holds i-1 finished       *)
(* signatures and the lines of the i-th); and the run terminates.          *)
(***************************************************************************)
InBody == pc \notin {"L5", "L9", "L9_next", "done"}

C2_State ==
    /\ \A k \in 1..NumBlocks(out) :
          Finished(k) => /\ WellFormed(Block(out, k))
                         /\ Len(HandlerClauses(Block(out, k))) = k + 1
    /\ InBody => NumBlocks(out) = (IF pc = "L10" THEN locals.i - 1 ELSE locals.i)
    /\ JustEmitted => NumBlocks(out) = locals.i
    /\ (pc = "done" /\ status = 0 /\ locals.overloads >= 1)
          => NumBlocks(out) = locals.overloads

C2_AscendingArities == []C2_State /\ <>(pc = "done")

C2_Witness ==
    /\ pc = "done" /\ status = 0
    /\ locals.overloads = 3
    /\ NumBlocks(out) = 3
    /\ Len(HandlerClauses(Block(out, 3))) = 4

(***************************************************************************)
(* C7.  Two consecutive signatures are separated by a blank line: the      *)
(* line before the opening line of every signature but the first is        *)
(* empty.                                                                  *)
(***************************************************************************)
C7_BlankLineBetween ==
    \A k \in 2..Len(out) : out[k] = Opening => out[k - 1] = <<>>

(***************************************************************************)
(* C8.  As claimed: the stream is only appended to, and in every state it  *)
(* consists of whole signatures only.                                      *)
(***************************************************************************)
AppendOnly == [][IsPrefix(out, out')]_vars

WholeSignaturesOnly == \A k \in 1..NumBlocks(out) : WellFormed(Block(out, k))

C8_LineAtATime ==
    [][/\ IsPrefix(out, out')
       /\ Len(out') <= Len(out) + 1]_vars

C8_FinishedAreWhole ==
    \A k \in 1..NumBlocks(out) : Finished(k) => WellFormed(Block(out, k))

Referenced(s) ==
    UNION {SeqToSet(HandlerClauses(s)[k].input)
               \cup {HandlerClauses(s)[k].output}
               \cup SeqToSet(HandlerClauses(s)[k].errors)
           : k \in 1..Len(HandlerClauses(s))}
        \cup {ReturnInitial(s)}
        \cup SeqToSet(ReturnFinal(s))
        \cup SeqToSet(ReturnErrors(s))

C3_DeclaredIsReferenced ==
    JustEmitted =>
        /\ WellFormed(LastSig)
        /\ SeqToSet(GenericParams(LastSig)) = Referenced(LastSig)
        /\ NoRepeat(GenericParams(LastSig))

C3_Witness ==
    /\ JustEmitted /\ locals.i = 3
    /\ "NewState4" \in Referenced(LastSig)
    /\ "Errors4" \in SeqToSet(GenericParams(LastSig))

(***************************************************************************)
(* C4.  The handlers list of the signature of arity i has i+1 clauses:     *)
(* the initial clause <ExistingState, NewState1, Errors1>, then for        *)
(* j = 1..i the clause whose input is ExistingState & NewState1 & ... &    *)
(* NewState{j}, whose output is NewState{j+1} and whose errors are         *)
(* Errors1 | ... | Errors{j+1}.                                            *)
(***************************************************************************)
ExpectedClauses(i) ==
    [n \in 1..(i + 1) |->
        IF n = 1
        THEN [input |-> <<"ExistingState">>, output |-> "NewState1", errors |-> <<"Errors1">>]
        ELSE [input  |-> <<"ExistingState">> \o StateVars(1, n - 1),
              output |-> "NewState" \o ToString(n),
              errors |-> ErrorVars(1, n)]]

C4_HandlerClauses ==
    JustEmitted =>
        /\ WellFormed(LastSig)
        /\ HandlerClauses(LastSig) = ExpectedClauses(locals.i)

C4_Witness ==
    /\ JustEmitted /\ locals.i = 3
    /\ Len(HandlerClauses(LastSig)) = 4
    /\ HandlerClauses(LastSig)[4].errors = <<"Errors1", "Errors2", "Errors3", "Errors4">>

(***************************************************************************)
(* C5.  The return type of the signature of arity i is                     *)
(* <ExistingState, NewState1 & ... & NewState{i+1},                        *)
(*  Errors1 | ... | Errors{i+1}>.                                          *)
(***************************************************************************)
C5_ReturnType ==
    JustEmitted =>
        /\ WellFormed(LastSig)
        /\ ReturnInitial(LastSig) = "ExistingState"
        /\ ReturnFinal(LastSig) = StateVars(1, locals.i + 1)
        /\ ReturnErrors(LastSig) = ErrorVars(1, locals.i + 1)

C5_Witness ==
    /\ JustEmitted /\ locals.i = 2
    /\ ReturnFinal(LastSig) = <<"NewState1", "NewState2", "NewState3">>

(***************************************************************************)
(* C6.  The signature of arity i has the one extra parameter               *)
(* composeCleanupErrors, and the union of its argument, the union of its   *)
(* result and the union of the return type are all                         *)
(* Errors1 | ... | Errors{i+1}, whatever joined_errors held when the       *)
(* clause loop ended.                                                      *)
(***************************************************************************)
C6_CleanupErrors ==
    JustEmitted =>
        /\ WellFormed(LastSig)
        /\ ExtraParams(LastSig) = {"composeCleanupErrors"}
        /\ CleanupArgErrors(LastSig) = ErrorVars(1, locals.i + 1)
        /\ CleanupResultErrors(LastSig) = ErrorVars(1, locals.i + 1)
        /\ ReturnErrors(LastSig) = CleanupArgErrors(LastSig)

C6_Witness ==
    /\ JustEmitted /\ locals.i = 2 /\ NumBlocks(out) = 2
    /\ CleanupArgErrors(LastSig) = <<"Errors1", "Errors2", "Errors3">>
    /\ CleanupResultErrors(LastSig) = <<"Errors1", "Errors2", "Errors3">>

(***************************************************************************)
(* C9.  The generic-parameter list of the signature of arity i is          *)
(* ExistingState, NewState1, Errors1, ..., NewState{i+1}, Errors{i+1}:     *)
(* 2*(i+1)+1 parameters.                                                   *)
(***************************************************************************)
ExpectedGenerics(i) ==
    [n \in 1..(2 * (i + 1) + 1) |->
        IF n = 1 THEN "ExistingState"
        ELSE IF n % 2 = 0 THEN "NewState" \o ToString(n \div 2)
        ELSE "Errors" \o ToString(n \div 2)]

C9_GenericParams ==
    JustEmitted =>
        /\ WellFormed(LastSig)
        /\ GenericParams(LastSig) = ExpectedGenerics(locals.i)
        /\ Len(GenericParams(LastSig)) = 2 * (locals.i + 1) + 1

C9_Witness ==
    /\ JustEmitted /\ locals.i = 2
    /\ Len(GenericParams(LastSig)) = 7
    /\ GenericParams(LastSig)[7] = "Errors3"

(***************************************************************************)
(* C10.  Within one signature every clause after the first takes as input  *)
(* the input of the clause before it conjoined with that clause's output,  *)
(* and its errors are that clause's errors plus one new variable; the last *)
(* clause's errors are the return type's errors, and the return type's     *)
(* final state is the last clause's input without ExistingState,           *)
(* conjoined with the last clause's output.                                *)
(***************************************************************************)
C10_Chaining ==
    JustEmitted =>
        /\ WellFormed(LastSig)
        /\ LET c == HandlerClauses(LastSig)
               last == c[Len(c)]
           IN  /\ Len(c) >= 2
               /\ \A n \in 2..Len(c) :
                     /\ c[n].input = Append(c[n - 1].input, c[n - 1].output)
                     /\ Len(c[n].errors) = Len(c[n - 1].errors) + 1
                     /\ IsPrefix(c[n - 1].errors, c[n].errors)
                     /\ c[n].errors[Len(c[n].errors)] \notin SeqToSet(c[n - 1].errors)
               /\ last.errors = ReturnErrors(LastSig)
               /\ ReturnFinal(LastSig) =
                     Append(SelectSeq(last.input, LAMBDA t : t # "ExistingState"),
                            last.output)

C10_Witness ==
    /\ JustEmitted /\ locals.i = 3
    /\ HandlerClauses(LastSig)[2].input = <<"ExistingState", "NewState1">>
    /\ HandlerClauses(LastSig)[4].input =
          <<"ExistingState", "NewState1", "NewState2", "NewState3">>
=============================================================================
